---- MODULE Spec2Model ----
(***************************************************************************)
(* A model of the MBR tools: the confirmation gate and file writer of      *)
(* src/common/mbr_writer.py, the installer program generated by            *)
(* src/common/compiler.py, the assembler/installer build steps of          *)
(* src/common/compiler.py, and the QEMU test harness of                    *)
(* src/common/qemu_runner.py as driven by test.py.                         *)
(*                                                                         *)
(* Text (operator input, device paths) is modelled as sequences of         *)
(* one-character strings so that strip(), lower(), startswith() and the    *)
(* substring test `in` are computed as Python computes them.               *)
(***************************************************************************)
EXTENDS Integers, Sequences, FiniteSets, TLC

(***************************************************************************)
(* Bounds of the model and program constants.                              *)
(***************************************************************************)
\* Largest number of blanks put before and after an operator's input line.
MaxPad == 1

\* The size of a boot sector (len(mbr_data) != 512).
SectorSize == 512

(***************************************************************************)
(* Text.                                                                   *)
(***************************************************************************)
UpperCase == <<"A","B","C","D","E","F","G","H","I","J","K","L","M",
               "N","O","P","Q","R","S","T","U","V","W","X","Y","Z">>
LowerCase == <<"a","b","c","d","e","f","g","h","i","j","k","l","m",
               "n","o","p","q","r","s","t","u","v","w","x","y","z">>

\* The characters str.strip() removes, among those an input line can hold.
Whitespace == {" ", "\t"}

\* str.lower() on one character.
LowerChar(c) ==
    IF \E i \in 1..Len(UpperCase) : UpperCase[i] = c
    THEN LowerCase[CHOOSE i \in 1..Len(UpperCase) : UpperCase[i] = c]
    ELSE c

\* str.lower()
Lower(s) == [i \in 1..Len(s) |-> LowerChar(s[i])]

RECURSIVE LStrip(_)
LStrip(s) ==
    IF s # <<>> /\ Head(s) \in Whitespace THEN LStrip(Tail(s)) ELSE s

RECURSIVE RStrip(_)
RStrip(s) ==
    IF s # <<>> /\ s[Len(s)] \in Whitespace
    THEN RStrip(SubSeq(s, 1, Len(s) - 1))
    ELSE s

\* str.strip()
Strip(s) == RStrip(LStrip(s))

\* str.startswith(p)
StartsWith(s, p) == Len(p) <= Len(s) /\ SubSeq(s, 1, Len(p)) = p

\* `p in s` for strings
Contains(s, p) ==
    \E i \in 1..(Len(s) - Len(p) + 1) : SubSeq(s, i, i + Len(p) - 1) = p

RECURSIVE Blanks(_)
Blanks(n) == IF n = 0 THEN <<>> ELSE <<" ">> \o Blanks(n - 1)

\* The phrases the prompts ask for.
RiskPhrase == <<"I"," ","U","N","D","E","R","S","T","A","N","D"," ",
                "T","H","E"," ","R","I","S","K","S">>
YesLower == <<"y","e","s">>
YesUpper == <<"Y","E","S">>

\* What an operator may type, before padding.
BaseLines ==
    { <<>>, <<"y">>, <<"Y">>, <<"n">>, <<"n","y">>, YesLower, YesUpper,
      <<"Y","e","s">>, <<"y","e","a","h">>, <<"y","e","s","!">>,
      <<"\t","y","e","s">>,
      RiskPhrase, Lower(RiskPhrase), RiskPhrase \o <<"!">>,
      SubSeq(RiskPhrase, 1, 12) }

\* The lines input() can return: a base line with up to MaxPad blanks around it.
Lines ==
    { Blanks(l) \o b \o Blanks(r) : l \in 0..MaxPad, r \in 0..MaxPad, b \in BaseLines }

\* What the read of one line from standard input yields.
NoInput == [kind |-> "none", text |-> <<>>]
EndOfInput == [kind |-> "eof", text |-> <<>>]
LineInput(l) == [kind |-> "line", text |-> l]
Inputs == {EndOfInput} \cup { LineInput(l) : l \in Lines }

(***************************************************************************)
(* Targets: the path the caller names, with what the path really is.       *)
(***************************************************************************)
PathChars ==
    ("/dev/sda1" :> <<"/","d","e","v","/","s","d","a","1">>) @@
    ("/dev/hda" :> <<"/","d","e","v","/","h","d","a">>) @@
    ("/dev/nvme0n1" :> <<"/","d","e","v","/","n","v","m","e","0","n","1">>) @@
    ("\\\\.\\PhysicalDrive0" :>
        <<"\\","\\",".","\\","P","h","y","s","i","c","a","l","D","r","i","v","e","0">>) @@
    ("/dev/disk0" :> <<"/","d","e","v","/","d","i","s","k","0">>) @@
    ("/dev/rdisk1" :> <<"/","d","e","v","/","r","d","i","s","k","1">>) @@
    ("./out/test.img" :> <<".","/","o","u","t","/","t","e","s","t",".","i","m","g">>) @@
    ("./out/disk.img" :> <<".","/","o","u","t","/","d","i","s","k",".","i","m","g">>) @@
    ("dist/a.bin" :> <<"d","i","s","t","/","a",".","b","i","n">>)

Targets == DOMAIN PathChars

\* The device nodes among the targets; every other target is a regular file path.
DeviceTargets ==
    {"/dev/sda1", "/dev/hda", "/dev/nvme0n1", "\\\\.\\PhysicalDrive0",
     "/dev/disk0", "/dev/rdisk1"}

VARIABLES
    wpc,        \* write_mbr_to_file: "idle", "prompt", "write", "done"
    wcall,      \* its arguments and the writer's configured safety_level
    winput,     \* what input() yielded at the prompt
    wprompts,   \* number of lines read from the operator by this call
    wbanner,    \* the warning text variant shown: "none", "physical", "plain"
    wconfirm,   \* _display_safety_warning's result: "none", "yes", "no"
    wfs,        \* effects on the target: parent created, opened, bytes written
    wret        \* the call's outcome: "none", "true", "false", "raise"

writerVars == <<wpc, wcall, winput, wprompts, wbanner, wconfirm, wfs, wret>>

VARIABLES
    gpc,        \* the gate called twice on one operator script: "first", "second", "both"
    glevel,     \* the safety_level of both calls
    gline,      \* the line the operator types at both prompts
    gfirst,     \* first call: its target, banner and result
    gsecond     \* second call: its target, banner and result

gateVars == <<gpc, glevel, gline, gfirst, gsecond>>

VARIABLES
    ipc,        \* the generated installer's main: "start", "prompt", "write", "exited"
    iplatform,  \* the branch of #ifdef _WIN32 it was compiled with: "win32", "posix"
    iargc,      \* argc
    iinput,     \* what std::getline read into confirmation
    iout,       \* the messages printed, in order
    idev,       \* the target device: opened for writing, bytes written to it
    iexit       \* the exit code, -1 while running

installerVars == <<ipc, iplatform, iargc, iinput, iout, idev, iexit>>

VARIABLES
    cpc,        \* MBRCompiler: "new", "ready", "nasm", "windres", "cxx", "done"
    ctools,     \* what __init__ and shutil.which find: nasm, cpp, windres, platform
    cop,        \* the operation called: "none", "asm", "cpp"
    cfs,        \* the files: the source, dist/binaries and its .bin, dist/executables
    cdata,      \* len(mbr_data) of a create_cpp_executable call
    crun,       \* the subprocesses of this call: how many ran, the last one's exit
                \* code and stderr
    cret,       \* the (success, message) returned, or the exception that escaped
    cdiag       \* the subprocess text the returned message carries

compilerVars == <<cpc, ctools, cop, cfs, cdata, crun, cret, cdiag>>

VARIABLES
    tpc,        \* test.py: "start", "variant", "create", "write", "launch", "emu",
                \*          "returned", "exit"
    targs,      \* the parsed command line
    ttools,     \* QEMURunner.__init__: qemu_cmd and qemu_img_cmd found or not
    topts,      \* main's test_options dict
    tqueue,     \* the variants still to test, the current one first
    tdata,      \* the binary loaded for the current variant: its length, its signature
    tparams,    \* the parameters test_mbr_in_qemu runs with
    tcmd,       \* the emulator's command line
    tfs,        \* the temporary directories: what each holds
    tdir,       \* the TemporaryDirectory of the invocation in progress
    tprev,      \* the directory the process's previous invocation had
    temu,       \* the emulator process: "none", "running", "exited", "killed"
    twarn,      \* run_variant_test's signature message: "none", "present", "missing"
    tres,       \* test_mbr_in_qemu's (success, message)
    tret,       \* test_variant's return value: "none", "true", "false"
    tall,       \* test_all's success_all
    tlog,       \* what the current test_variant call has printed and checked
    thang,      \* the emulator that was launched never exits by itself
    tload       \* _load_variant_binary of the current variant: what it met and
                \* how many times it called _build_variant

testVars == <<tpc, targs, ttools, topts, tqueue, tdata, tparams, tcmd, tfs, tdir, tprev,
              temu, twarn, tres, tret, tall, tlog, thang, tload>>

VARIABLES
    bpc,        \* build.py: "start", "variant", "asm", "cpp", "returned", "exit"
    bargs,      \* the parsed command line
    bqueue,     \* the variants still to build, the current one first
    blog,       \* what the current build_variant call has printed and done
    bret,       \* build_variant's return value: "none", "true", "false", "raise"
    bdone,      \* the build_variant calls that have returned: variant and value
    ball,       \* build_all's success_all
    bresult,    \* what build_all returned: "none", "true", "false"
    bcomp,      \* what compile_asm_to_binary returned to build_variant
    bbin,       \* the file at dist/binaries/<variant>.bin when it returned
    bdata,      \* the mbr_data given to create_cpp_executable
    binst       \* create_cpp_executable: "none", "ok", "failed"

buildVars == <<bpc, bargs, bqueue, blog, bret, bdone, ball, bresult, bcomp, bbin, bdata,
               binst>>

VARIABLES
    mpc,        \* write_mbr_to_image: "idle", "returned", "read back"
    mdata,      \* mbr_data, byte by byte
    mold,       \* the file at image_path before the call
    mimg,       \* the file at image_path
    mres,       \* the (success, message) returned
    mread       \* the first sector read back from the file

imageVars == <<mpc, mdata, mold, mimg, mres, mread>>

vars == <<writerVars, gateVars, installerVars, compilerVars, testVars, buildVars,
          imageVars>>

\* Each component is a program (or a call) of its own: its steps leave the
\* other components' state alone.
writerOnly == UNCHANGED <<gateVars, installerVars, compilerVars, testVars, buildVars,
                          imageVars>>
gateOnly == UNCHANGED <<writerVars, installerVars, compilerVars, testVars, buildVars,
                          imageVars>>
installerOnly == UNCHANGED <<writerVars, gateVars, compilerVars, testVars, buildVars,
                          imageVars>>
compilerOnly == UNCHANGED <<writerVars, gateVars, installerVars, testVars, buildVars,
                          imageVars>>
testOnly == UNCHANGED <<writerVars, gateVars, installerVars, compilerVars, buildVars,
                          imageVars>>
buildOnly == UNCHANGED <<writerVars, gateVars, installerVars, compilerVars, testVars,
                          imageVars>>
imageOnly == UNCHANGED <<writerVars, gateVars, installerVars, compilerVars, testVars,
                          buildVars>>

(***************************************************************************)
(* MBRWriter (src/common/mbr_writer.py).                                   *)
(***************************************************************************)
\* The safety levels a writer is configured with; "paranoid" stands for any
\* string other than the four named ones.
Levels == {"none", "low", "medium", "high", "paranoid", "HIGH"}

\* Lengths of the data handed to a consumer of a boot image.
DataLens == {0, SectorSize - 1, SectorSize, SectorSize + 1}

\* dangerous_patterns of _is_physical_drive
DangerousPatterns ==
    { <<"P","h","y","s","i","c","a","l","D","r","i","v","e">>,
      <<"/","d","e","v","/","s","d">>,
      <<"/","d","e","v","/","h","d">>,
      <<"/","d","e","v","/","n","v","m","e">>,
      <<"d","i","s","k">>,
      <<"r","d","i","s","k">> }

\* _is_physical_drive: any(pattern in target for pattern in dangerous_patterns)
IsPhysicalDrive(target) == \E p \in DangerousPatterns : Contains(target, p)

\* The warning text _display_safety_warning prints for a target.
Banner(target) == IF IsPhysicalDrive(PathChars[target]) THEN "physical" ELSE "plain"

\* A gate that asks for the full phrase whenever the target is a physical drive.
DisplaySafetyWarningByTarget(level, target, line) ==
    IF level = "high" \/ IsPhysicalDrive(PathChars[target])
    THEN Strip(line) = RiskPhrase
    ELSE IF level = "medium"
         THEN Lower(Strip(line)) = YesLower
         ELSE StartsWith(Lower(Strip(line)), <<"y">>)

\* A gate whose high tier compares case-insensitively, like the other tiers.
DisplaySafetyWarningAnyCase(level, target, line) ==
    IF level = "high"
    THEN Lower(Strip(line)) = Lower(RiskPhrase)
    ELSE IF level = "medium"
         THEN Lower(Strip(line)) = YesLower
         ELSE StartsWith(Lower(Strip(line)), <<"y">>)

\* _display_safety_warning: the boolean it returns for the line input() gave.
DisplaySafetyWarning(level, target, line) ==
    IF level = "high"
    THEN Strip(line) = RiskPhrase
    ELSE IF level = "medium"
         THEN Lower(Strip(line)) = YesLower
         ELSE StartsWith(Lower(Strip(line)), <<"y">>)

\* A writer that also skips the prompt at the low level.
NeedsPromptAboveLow(force, level) == ~force /\ level \notin {"none", "low"}

\* A writer that prompts at the levels it knows only.
NeedsPromptKnownLevels(force, level) == ~force /\ level \in {"low", "medium", "high"}

\* write_mbr_to_file: `if not force and self.safety_level != "none"`
NeedsPrompt(force, level) == ~force /\ level # "none"

\* A writer that asks again after a refusal.
AfterAnswerAsksAgain(confirmed) == IF confirmed THEN "write" ELSE "prompt"

\* write_mbr_to_file: `if not self._display_safety_warning(target): return
\* False`, otherwise on to the try block.
AfterAnswer(confirmed) == IF confirmed THEN "write" ELSE "done"

NoCall == [level |-> "high", force |-> FALSE, len |-> 0, target |-> "dist/a.bin"]
CleanFs == [parent |-> FALSE, opened |-> FALSE, written |-> 0]

InitWriter ==
    /\ wpc = "idle"
    /\ wcall = NoCall
    /\ winput = NoInput
    /\ wprompts = 0
    /\ wbanner = "none"
    /\ wconfirm = "none"
    /\ wfs = CleanFs
    /\ wret = "none"

\* write_mbr_to_file up to the prompt: the length check and the decision to ask.
WriteCall(level, force, len, target) ==
    /\ wpc = "idle"
    /\ wcall' = [level |-> level, force |-> force, len |-> len, target |-> target]
    /\ IF len # SectorSize
       THEN wpc' = "done" /\ wret' = "false" /\ wbanner' = wbanner
       ELSE IF NeedsPrompt(force, level)
            THEN wpc' = "prompt" /\ wret' = wret /\ wbanner' = Banner(target)
            ELSE wpc' = "write" /\ wret' = wret /\ wbanner' = wbanner
    /\ UNCHANGED <<winput, wprompts, wconfirm, wfs>>
    /\ writerOnly

\* input() returns (or raises EOFError) and _display_safety_warning answers.
WriteReadLine(in) ==
    /\ wpc = "prompt"
    /\ winput' = in
    /\ wprompts' = wprompts + 1
    /\ IF in.kind = "eof"
       THEN wpc' = "done" /\ wret' = "raise" /\ wconfirm' = wconfirm
       ELSE LET confirmed == DisplaySafetyWarning(wcall.level, wcall.target, in.text) IN
            /\ wpc' = AfterAnswer(confirmed)
            /\ wret' = IF confirmed THEN wret ELSE "false"
            /\ wconfirm' = IF confirmed THEN "yes" ELSE "no"
    /\ UNCHANGED <<wcall, wbanner, wfs>>
    /\ writerOnly

\* The try block: mkdir of the parent, open(target, 'wb'), f.write(mbr_data).
WriteOutcomes == {"mkdir fails", "open fails", "write fails", "written"}

WriteData(outcome) ==
    /\ wpc = "write"
    /\ wpc' = "done"
    /\ wfs' = [parent |-> outcome # "mkdir fails",
               opened |-> outcome \in {"write fails", "written"},
               written |-> IF outcome = "written" THEN wcall.len ELSE 0]
    /\ wret' = IF outcome = "written" THEN "true" ELSE "false"
    /\ UNCHANGED <<wcall, winput, wprompts, wbanner, wconfirm>>
    /\ writerOnly

\* The call has returned; the writer is ready for the next call.
WriteReturn ==
    /\ wpc = "done"
    /\ wpc' = "idle"
    /\ wcall' = NoCall
    /\ winput' = NoInput
    /\ wprompts' = 0
    /\ wbanner' = "none"
    /\ wconfirm' = "none"
    /\ wfs' = CleanFs
    /\ wret' = "none"
    /\ writerOnly

NextWriter ==
    \/ \E level \in Levels, force \in BOOLEAN, len \in DataLens, target \in Targets :
          WriteCall(level, force, len, target)
    \/ \E in \in Inputs : WriteReadLine(in)
    \/ \E outcome \in WriteOutcomes : WriteData(outcome)
    \/ WriteReturn

(***************************************************************************)
(* _display_safety_warning called twice with the same safety_level and the *)
(* same operator input, on two targets.                                    *)
(***************************************************************************)
NoGateCall == [target |-> "dist/a.bin", banner |-> "none", result |-> FALSE]

GateCall(level, target, line) ==
    [target |-> target, banner |-> Banner(target),
     result |-> DisplaySafetyWarning(level, target, line)]

InitGate ==
    /\ gpc = "first"
    /\ glevel = "high"
    /\ gline = <<>>
    /\ gfirst = NoGateCall
    /\ gsecond = NoGateCall

GateFirst(level, target, line) ==
    /\ gpc = "first"
    /\ gpc' = "second"
    /\ glevel' = level
    /\ gline' = line
    /\ gfirst' = GateCall(level, target, line)
    /\ UNCHANGED gsecond
    /\ gateOnly

GateSecond(target) ==
    /\ gpc = "second"
    /\ gpc' = "both"
    /\ gsecond' = GateCall(glevel, target, gline)
    /\ UNCHANGED <<glevel, gline, gfirst>>
    /\ gateOnly

GateReset ==
    /\ gpc = "both"
    /\ gpc' = "first"
    /\ glevel' = "high"
    /\ gline' = <<>>
    /\ gfirst' = NoGateCall
    /\ gsecond' = NoGateCall
    /\ gateOnly

NextGate ==
    \/ \E level \in Levels \ {"none"}, target \in Targets, line \in Lines :
          GateFirst(level, target, line)
    \/ \E target \in Targets : GateSecond(target)
    \/ GateReset

(***************************************************************************)
(* The installer program of _generate_cpp_source (src/common/compiler.py). *)
(***************************************************************************)
Platforms == {"win32", "posix"}

\* argc of a run: the program name plus zero, one or two arguments.
ArgCounts == {1, 2, 3}

\* Byte counts a write of the 512-byte array can report.
WriteCounts == {0, SectorSize - 1, SectorSize}

UntouchedDevice == [opened |-> FALSE, written |-> 0]

\* main: `if (confirmation != "YES")` (getline leaves "" at end of input)
InstallerConfirms(in) == in.kind = "line" /\ in.text = YesUpper

\* A writeMBR that takes any completed write as success.
WriteMBRAnyCount(platform, openOk, ioOk, n) == openOk /\ ioOk

\* writeMBR's return value: the open succeeded and the write reported 512
\* bytes (WriteFile's result && bytesWritten == 512; write() returns -1 on
\* failure).
WriteMBR(platform, openOk, ioOk, n) ==
    /\ openOk
    /\ IF platform = "win32"
       THEN ioOk /\ n = SectorSize
       ELSE (IF ioOk THEN n ELSE -1) = SectorSize

InitInstaller ==
    /\ ipc = "start"
    /\ iplatform = "posix"
    /\ iargc = 2
    /\ iinput = NoInput
    /\ iout = <<>>
    /\ idev = UntouchedDevice
    /\ iexit = -1

\* main up to std::getline: the usage check, the banner and the prompt.
InstallerStart(platform, argc) ==
    /\ ipc = "start"
    /\ iplatform' = platform
    /\ iargc' = argc
    /\ IF argc # 2
       THEN ipc' = "exited" /\ iout' = <<"usage">> /\ iexit' = 1
       ELSE ipc' = "prompt" /\ iout' = <<"variant and target", "warning">> /\ iexit' = iexit
    /\ UNCHANGED <<iinput, idev>>
    /\ installerOnly

\* std::getline returns and main compares the line.
InstallerReadLine(in) ==
    /\ ipc = "prompt"
    /\ iinput' = in
    /\ IF InstallerConfirms(in)
       THEN ipc' = "write" /\ iout' = iout /\ iexit' = iexit
       ELSE ipc' = "exited" /\ iout' = Append(iout, "cancelled") /\ iexit' = 0
    /\ UNCHANGED <<iplatform, iargc, idev>>
    /\ installerOnly

\* writeMBR(target) and the rest of main.
InstallerWrite(openOk, ioOk, n) ==
    /\ ipc = "write"
    /\ ipc' = "exited"
    /\ idev' = [opened |-> openOk, written |-> IF openOk /\ ioOk THEN n ELSE 0]
    /\ IF WriteMBR(iplatform, openOk, ioOk, n)
       THEN iout' = Append(iout, "success") /\ iexit' = 0
       ELSE /\ iout' = (IF openOk THEN iout ELSE Append(iout, "cannot open"))
                           \o <<"failed">>
            /\ iexit' = 1
    /\ UNCHANGED <<iplatform, iargc, iinput>>
    /\ installerOnly

\* The process is gone; the program can be run again.
InstallerRerun ==
    /\ ipc = "exited"
    /\ ipc' = "start"
    /\ iplatform' = "posix"
    /\ iargc' = 2
    /\ iinput' = NoInput
    /\ iout' = <<>>
    /\ idev' = UntouchedDevice
    /\ iexit' = -1
    /\ installerOnly

NextInstaller ==
    \/ \E platform \in Platforms, argc \in ArgCounts : InstallerStart(platform, argc)
    \/ \E in \in Inputs : InstallerReadLine(in)
    \/ \E openOk \in BOOLEAN, ioOk \in BOOLEAN, n \in WriteCounts :
          InstallerWrite(openOk, ioOk, n)
    \/ InstallerRerun

(***************************************************************************)
(* MBRCompiler (src/common/compiler.py): compile_asm_to_binary and         *)
(* create_cpp_executable.                                                  *)
(***************************************************************************)
HostPlatforms == {"windows", "linux"}

\* File sizes the assembler can leave at the output path.
BinSizes == {0, SectorSize - 1, SectorSize, SectorSize + 1}

\* No file at the path.
Absent == -1

\* The files create_cpp_executable writes into the output directory, in the
\* order it writes them, then the resource object and the executable.
SourceFiles == <<"cpp", "manifest", "rc">>

NoTools == [nasm |-> FALSE, cpp |-> FALSE, windres |-> FALSE, platform |-> "linux"]
NoRun == [count |-> 0, rc |-> -1, err |-> ""]
NoResult == [ok |-> FALSE, kind |-> "none"]
Result(ok, kind) == [ok |-> ok, kind |-> kind]

InitCompiler ==
    /\ cpc = "new"
    /\ ctools = NoTools
    /\ cop = "none"
    /\ cfs = [asm |-> FALSE, binDir |-> FALSE, bin |-> Absent,
              exeDir |-> FALSE, art |-> {}, embedded |-> Absent]
    /\ cdata = 0
    /\ crun = NoRun
    /\ cret = NoResult
    /\ cdiag = ""

\* __init__: _find_nasm, _find_cpp_compiler; the source file the variant names.
CompilerNew(nasm, cpp, windres, platform, asm) ==
    /\ cpc = "new"
    /\ cpc' = "ready"
    /\ ctools' = [nasm |-> nasm, cpp |-> cpp, windres |-> windres, platform |-> platform]
    /\ cfs' = [cfs EXCEPT !.asm = asm]
    /\ UNCHANGED <<cop, cdata, crun, cret, cdiag>>
    /\ compilerOnly

\* A size check that lets shorter output through.
SizeOkAtMost(size) == size <= SectorSize

\* compile_asm_to_binary: `if size == 512`
SizeOk(size) == size = SectorSize

\* compile_asm_to_binary up to subprocess.run.
CompileCall(mkdirOk) ==
    /\ cpc = "ready"
    /\ cop' = "asm"
    /\ crun' = NoRun
    /\ IF ~ctools.nasm
       THEN cpc' = "done" /\ cret' = Result(FALSE, "tool missing") /\ cfs' = cfs
       ELSE IF ~cfs.asm
            THEN cpc' = "done" /\ cret' = Result(FALSE, "source missing") /\ cfs' = cfs
            ELSE IF ~(mkdirOk \/ cfs.binDir)
                 THEN cpc' = "done" /\ cret' = Result(FALSE, "raise") /\ cfs' = cfs
                 ELSE /\ cpc' = "nasm"
                      /\ cret' = NoResult
                      /\ cfs' = [cfs EXCEPT !.binDir = TRUE]
    /\ UNCHANGED <<ctools, cdata, cdiag>>
    /\ compilerOnly

\* What a failing tool writes to stderr.
StderrTexts == {"boot.asm:3: error: symbol `msg' not defined", "fatal: out of memory"}

\* The outcomes of running nasm: it cannot be started; or it exits with a code
\* having left the output file alone ("keep") or written one of some size,
\* and with some text on stderr when the code is not 0.
NasmOutcomes ==
    {[started |-> FALSE, rc |-> -1, out |-> "keep", size |-> 0, err |-> ""]} \cup
    [started : {TRUE}, rc : {0}, out : {"keep"}, size : {0}, err : {""}] \cup
    [started : {TRUE}, rc : {0}, out : {"write"}, size : BinSizes, err : {""}] \cup
    [started : {TRUE}, rc : {1}, out : {"keep"}, size : {0}, err : StderrTexts] \cup
    [started : {TRUE}, rc : {1}, out : {"write"}, size : BinSizes, err : StderrTexts]

\* A verdict that trusts a one-sector file at the output path whatever the
\* assembler's exit code was.
JudgeByFile(started, rc, bin) ==
    IF ~started THEN Result(FALSE, "error")
    ELSE IF bin # Absent /\ SizeOk(bin) THEN Result(TRUE, "compiled")
    ELSE IF rc # 0 THEN Result(FALSE, "tool failure")
    ELSE IF bin = Absent THEN Result(FALSE, "no output")
    ELSE Result(FALSE, "size mismatch")

\* compile_asm_to_binary's verdict on the assembler's run: whether
\* subprocess.run started it, its exit code, the file at the output path.
Judge(started, rc, bin) ==
    IF ~started THEN Result(FALSE, "error")
    ELSE IF rc # 0 THEN Result(FALSE, "tool failure")
    ELSE IF bin = Absent THEN Result(FALSE, "no output")
    ELSE IF SizeOk(bin) THEN Result(TRUE, "compiled")
    ELSE Result(FALSE, "size mismatch")

\* subprocess.run returns (or raises) and the result is judged; "NASM
\* failed: {result.stderr}" carries the assembler's text.
NasmFinishes(o) ==
    /\ cpc = "nasm"
    /\ cpc' = "done"
    /\ crun' = [count |-> crun.count + 1, rc |-> o.rc, err |-> o.err]
    /\ cfs' = [cfs EXCEPT !.bin = IF o.out = "write" THEN o.size ELSE @]
    /\ cret' = Judge(o.started, o.rc, cfs'.bin)
    /\ cdiag' = IF cret'.kind = "tool failure" THEN o.err ELSE ""
    /\ UNCHANGED <<ctools, cop, cdata>>
    /\ compilerOnly

\* The first k of the files written before the C++ compiler runs.
Written(k) == { SourceFiles[i] : i \in 1..k }

\* create_cpp_executable up to the first subprocess: the source with the data
\* embedded, the manifest and the resource script are written; `written` is
\* how many of the three were written before an open() or write() raised.
CppCall(len, mkdirOk, written) ==
    /\ cpc = "ready"
    /\ cop' = "cpp"
    /\ cdata' = len
    /\ crun' = NoRun
    /\ IF ~ctools.cpp
       THEN cpc' = "done" /\ cret' = Result(FALSE, "compiler missing") /\ cfs' = cfs
       ELSE IF ~(mkdirOk \/ cfs.exeDir)
            THEN cpc' = "done" /\ cret' = Result(FALSE, "raise") /\ cfs' = cfs
            ELSE /\ cfs' = [cfs EXCEPT !.exeDir = TRUE,
                                       !.art = @ \cup Written(written),
                                       !.embedded = IF written >= 1 THEN len ELSE @]
                 /\ IF written < Len(SourceFiles)
                    THEN cpc' = "done" /\ cret' = Result(FALSE, "error")
                    ELSE /\ cret' = NoResult
                         /\ cpc' = IF ctools.platform = "windows" /\ ctools.windres
                                   THEN "windres" ELSE "cxx"
    /\ UNCHANGED <<ctools, cdiag>>
    /\ compilerOnly

\* windres returns: the resource object exists when it exited 0.
WindresFinishes(started, rc) ==
    /\ cpc = "windres"
    /\ crun' = [count |-> crun.count + 1, rc |-> rc, err |-> ""]
    /\ IF ~started
       THEN cpc' = "done" /\ cret' = Result(FALSE, "error") /\ cfs' = cfs
       ELSE /\ cpc' = "cxx"
            /\ cret' = cret
            /\ cfs' = [cfs EXCEPT !.art = IF rc = 0 THEN @ \cup {"o"} ELSE @]
    /\ UNCHANGED <<ctools, cop, cdata, cdiag>>
    /\ compilerOnly

\* The C++ compiler returns; the resource script and object are removed; an
\* array initializer longer than the array does not compile.
CxxFinishes(started, rc) ==
    /\ cpc = "cxx"
    /\ cpc' = "done"
    /\ started /\ rc = 0 => cfs.embedded <= SectorSize
    /\ crun' = [count |-> crun.count + 1, rc |-> rc, err |-> ""]
    /\ IF ~started
       THEN cret' = Result(FALSE, "error") /\ cfs' = cfs
       ELSE /\ cfs' = [cfs EXCEPT !.art = (@ \ {"rc", "o"}) \cup
                                            (IF rc = 0 THEN {"exe"} ELSE {})]
            /\ cret' = IF rc = 0 THEN Result(TRUE, "created")
                                 ELSE Result(FALSE, "compile failed")
    /\ UNCHANGED <<ctools, cop, cdata, cdiag>>
    /\ compilerOnly

\* The call has returned; the files stay.
CompilerReturn ==
    /\ cpc = "done"
    /\ cpc' = "ready"
    /\ cop' = "none"
    /\ cdata' = 0
    /\ crun' = NoRun
    /\ cret' = NoResult
    /\ cdiag' = ""
    /\ UNCHANGED <<ctools, cfs>>
    /\ compilerOnly

NextCompiler ==
    \/ \E nasm \in BOOLEAN, cpp \in BOOLEAN, windres \in BOOLEAN,
          platform \in HostPlatforms, asm \in BOOLEAN :
          CompilerNew(nasm, cpp, windres, platform, asm)
    \/ \E mkdirOk \in BOOLEAN : CompileCall(mkdirOk)
    \/ \E o \in NasmOutcomes : NasmFinishes(o)
    \/ \E len \in DataLens, mkdirOk \in BOOLEAN, written \in 0..Len(SourceFiles) :
          CppCall(len, mkdirOk, written)
    \/ \E started \in BOOLEAN, rc \in {0, 1} : WindresFinishes(started, rc)
    \/ \E started \in BOOLEAN, rc \in {0, 1} : CxxFinishes(started, rc)
    \/ CompilerReturn

(***************************************************************************)
(* The test tool (test.py) and the QEMU harness                            *)
(* (src/common/qemu_runner.py).                                            *)
(***************************************************************************)
\* self.variants, in registration order.
Catalog == <<"custom_message", "empty", "memz">>
VariantNames == { Catalog[i] : i \in 1..Len(Catalog) }

\* config['test_options'] of each variant.
VariantTestOptions ==
    [custom_message |->
        [timeout_seconds |-> 15, memory_mb |-> 64, snapshot |-> TRUE, isolated |-> TRUE],
     empty |->
        [timeout_seconds |-> 5, memory_mb |-> 32, snapshot |-> TRUE, isolated |-> TRUE],
     memz |->
        [timeout_seconds |-> 20, memory_mb |-> 128, snapshot |-> TRUE, isolated |-> TRUE]]

ParamKeys == {"snapshot", "isolated", "memory_mb", "timeout_seconds"}

\* Defaults that leave snapshot mode off.
TestMbrDefaultsNoSnapshot ==
    [snapshot |-> FALSE, isolated |-> TRUE, memory_mb |-> 128, timeout_seconds |-> 30]

\* The defaults of test_mbr_in_qemu's keyword parameters.
TestMbrDefaults ==
    [snapshot |-> TRUE, isolated |-> TRUE, memory_mb |-> 128, timeout_seconds |-> 30]

\* Command lines: --test NAME or --test-all, with --no-snapshot,
\* --no-isolation and --timeout SECONDS given or not.
TestArgs ==
    { [mode |-> m.mode, name |-> m.name, noSnapshot |-> ns, noIsolation |-> ni,
       hasTimeout |-> t.given, timeout |-> t.seconds] :
        m \in [mode : {"test"}, name : VariantNames \cup {"bogus"}]
                \cup {[mode |-> "test-all", name |-> "none"]},
        ns \in BOOLEAN, ni \in BOOLEAN,
        t \in {[given |-> FALSE, seconds |-> 0], [given |-> TRUE, seconds |-> 0],
               [given |-> TRUE, seconds |-> 5]} }

NoArgs ==
    [mode |-> "test", name |-> "none", noSnapshot |-> FALSE, noIsolation |-> FALSE,
     hasTimeout |-> FALSE, timeout |-> 0]

\* main: the test_options dict holds a key for each flag that was given
\* (`if args.timeout:` is false for --timeout 0 too).
MainOptions(args) ==
    [k \in (IF args.noSnapshot THEN {"snapshot"} ELSE {})
          \cup (IF args.noIsolation THEN {"isolated"} ELSE {})
          \cup (IF args.hasTimeout /\ args.timeout # 0 THEN {"timeout_seconds"} ELSE {})
       |-> IF k = "timeout_seconds" THEN args.timeout ELSE FALSE]

\* test_variant: `test_options = options or config['test_options']`
EffectiveOptions(opts, name) ==
    IF DOMAIN opts = {} THEN VariantTestOptions[name] ELSE opts

\* test_mbr_in_qemu(mbr_data, variant_name, **options): a keyword that is not
\* passed takes the parameter's default.
BindParams(opts) ==
    [k \in ParamKeys |-> IF k \in DOMAIN opts THEN opts[k] ELSE TestMbrDefaults[k]]

NoParams == TestMbrDefaults

\* The command line test_mbr_in_qemu builds.
QemuCommand(dir, name, params) ==
    <<"qemu", "-hda", dir \o "/" \o name \o "_test.img",
      "-m", ToString(params.memory_mb) \o "M">>
    \o (IF params.snapshot THEN <<"-snapshot">> ELSE <<>>)
    \o (IF params.isolated THEN <<"-net", "none">> ELSE <<>>)
    \o <<"-vga", "std", "-name", "MBR Test - " \o name>>

\* Names tempfile can give a new directory.
TmpNames == {"/tmp/tmpA", "/tmp/tmpB"}

\* What _load_variant_binary returns: None, or bytes of some length with or
\* without the boot signature at 510..511.
NoData == [len |-> Absent, sig |-> FALSE]

\* What one run of _build_variant meets: whether the variant's assembly file
\* is there, whether dist/binaries can be made, whether the compiler object
\* has found nasm, whether nasm could be started, its exit code, and the
\* file it leaves at dist/binaries/<name>.bin (a size, or Absent).
NoBuildRun ==
    [asm |-> TRUE, mkdirOk |-> TRUE, nasm |-> TRUE, started |-> TRUE, rc |-> 0,
     out |-> Absent]
BuildRuns ==
    { [NoBuildRun EXCEPT !.asm = FALSE], [NoBuildRun EXCEPT !.mkdirOk = FALSE],
      [NoBuildRun EXCEPT !.nasm = FALSE], [NoBuildRun EXCEPT !.started = FALSE] }
    \cup [asm : {TRUE}, mkdirOk : {TRUE}, nasm : {TRUE}, started : {TRUE},
          rc : {0, 1}, out : {Absent} \cup BinSizes]

\* What one call of _load_variant_binary meets: dist/binaries/<name>.bin
\* before the call (a size, or Absent), whether the file that is read ends its
\* first sector with the boot signature, whether reading works, and the build
\* run when the file is not there.
LoadEnvs ==
    [file : DataLens, sig : BOOLEAN, readOk : BOOLEAN, build : {NoBuildRun}]
    \cup [file : {Absent}, sig : BOOLEAN, readOk : BOOLEAN, build : BuildRuns]
NoLoad ==
    [env |-> [file |-> Absent, sig |-> FALSE, readOk |-> FALSE, build |-> NoBuildRun],
     builds |-> 0]

\* _build_variant: False without the assembly file; dist/binaries is made
\* outside any try block, so a failure there is an exception; otherwise the
\* verdict of compile_asm_to_binary, which is False at once without nasm.
TesterBuildVariant(run) ==
    IF ~run.asm THEN [ok |-> FALSE, raised |-> FALSE, file |-> Absent]
    ELSE IF ~run.mkdirOk THEN [ok |-> FALSE, raised |-> TRUE, file |-> Absent]
    ELSE IF ~run.nasm THEN [ok |-> FALSE, raised |-> FALSE, file |-> Absent]
    ELSE LET left == IF run.started THEN run.out ELSE Absent IN
         [ok |-> Judge(run.started, run.rc, left).ok, raised |-> FALSE,
          file |-> left]

\* open(binary_path, 'rb').read(), or None when that raises.
ReadBinary(file, env) ==
    IF env.readOk THEN [len |-> file, sig |-> env.sig /\ file >= SectorSize]
    ELSE NoData

RECURSIVE LoadVariantBinary(_, _, _)

\* A loader that builds the variant even when its binary is already there.
LoadVariantBinaryRebuilds(file, env, builds) ==
    LET b == TesterBuildVariant(env.build) IN
    [data |-> IF file # Absent THEN ReadBinary(file, env)
              ELSE IF b.ok THEN ReadBinary(b.file, env) ELSE NoData,
     builds |-> builds + 1, raised |-> FALSE]

\* _load_variant_binary with `file` at dist/binaries/<name>.bin and `builds`
\* calls of _build_variant made so far: the file is read when it exists;
\* otherwise the variant is built, and after a build that returned True the
\* function calls itself with the file the build left.
LoadVariantBinary(file, env, builds) ==
    IF file # Absent
    THEN [data |-> ReadBinary(file, env), builds |-> builds, raised |-> FALSE]
    ELSE LET b == TesterBuildVariant(env.build) IN
         IF b.raised THEN [data |-> NoData, builds |-> builds + 1, raised |-> TRUE]
         ELSE IF b.ok THEN LoadVariantBinary(b.file, env, builds + 1)
         ELSE [data |-> NoData, builds |-> builds + 1, raised |-> FALSE]

\* An availability check that looks for the emulator only.
AvailableEmulatorOnly == ttools.qemu

\* is_available()
Available == ttools.qemu /\ ttools.qemuImg

\* ', '.join(names)
RECURSIVE JoinNames(_)
JoinNames(names) ==
    IF names = <<>> THEN ""
    ELSE IF Len(names) = 1 THEN Head(names)
    ELSE Head(names) \o ", " \o JoinNames(Tail(names))

\* A test_variant that checks for QEMU before it looks the variant up.
VariantLogChecksFirst(name, binary) ==
    <<"check_qemu">> \o
    (IF ~Available THEN <<"QEMU not available!">>
     ELSE IF name \notin VariantNames
     THEN <<"QEMU is available", "Unknown variant: " \o name,
            "Available variants: " \o JoinNames(Catalog)>>
     ELSE <<"QEMU is available", "_load_variant_binary">>)

\* What test_variant and run_variant_test print and check, in order, before
\* test_mbr_in_qemu is entered (or instead of entering it).
VariantLog(name, binary) ==
    IF name \notin VariantNames
    THEN <<"Unknown variant: " \o name, "Available variants: " \o JoinNames(Catalog)>>
    ELSE <<"check_qemu">> \o
         (IF ~Available THEN <<"QEMU not available!">>
          ELSE <<"QEMU is available", "_load_variant_binary">> \o
               (IF binary = NoData THEN <<"Failed to load binary">>
                ELSE IF binary.len # SectorSize THEN <<"Invalid MBR size">>
                ELSE IF ~binary.sig THEN <<"Warning: Missing boot signature 0x55AA">>
                ELSE <<"Boot signature present">>))

\* A run_variant_test that also refuses an image without the signature.
RejectedOrUnsigned(name, binary) ==
    \/ name \notin VariantNames \/ ~Available \/ binary = NoData
    \/ binary.len # SectorSize \/ ~binary.sig

\* test_variant or run_variant_test returns False before test_mbr_in_qemu:
\* unknown variant, no QEMU, no binary, or a binary that is not one sector
\* long.
Rejected(name, binary) ==
    \/ name \notin VariantNames \/ ~Available \/ binary = NoData
    \/ binary.len # SectorSize

\* A harness that never passes a timeout to subprocess.run.
TimeoutArmedNever(params) == FALSE

\* `if timeout_seconds > 0`: subprocess.run is given the timeout.
TimeoutArmed(params) == params.timeout_seconds > 0

\* A harness that leaves the directory behind when the run timed out.
LeaveTempDirUnlessTimeout(fs, dir, how) ==
    IF how = "timeout" THEN fs ELSE [fs EXCEPT ![dir] = "absent"]

\* Leaving `with tempfile.TemporaryDirectory()`: the directory and what it
\* holds are removed, however the block is left.
LeaveTempDir(fs, dir, how) == [fs EXCEPT ![dir] = "absent"]

InitTest ==
    /\ tpc = "start"
    /\ targs = NoArgs
    /\ ttools = [qemu |-> FALSE, qemuImg |-> FALSE]
    /\ topts = MainOptions(NoArgs)
    /\ tqueue = <<>>
    /\ tdata = NoData
    /\ tparams = NoParams
    /\ tcmd = <<>>
    /\ tfs = [n \in TmpNames |-> "absent"]
    /\ tdir = "none"
    /\ tprev = "none"
    /\ temu = "none"
    /\ twarn = "none"
    /\ tres = NoResult
    /\ tret = "none"
    /\ tall = TRUE
    /\ tlog = <<>>
    /\ thang = FALSE
    /\ tload = NoLoad

\* main: the tester is built, the options are collected, and --test or
\* --test-all is entered (test_all gives up when QEMU is not available). The
\* operator runs one tool at a time: the build tool is not running.
TestMain(args, qemu, qemuImg) ==
    /\ tpc = "start"
    /\ bpc = "start"
    /\ targs' = args
    /\ ttools' = [qemu |-> qemu, qemuImg |-> qemuImg]
    /\ topts' = MainOptions(args)
    /\ IF args.mode = "test"
       THEN tpc' = "variant" /\ tqueue' = <<args.name>>
       ELSE IF qemu /\ qemuImg
            THEN tpc' = "variant" /\ tqueue' = Catalog
            ELSE tpc' = "exit" /\ tqueue' = <<>>
    /\ UNCHANGED <<tdata, tparams, tcmd, tfs, tdir, tprev, temu, twarn, tres, tret, tall,
                   tlog, thang, tload>>
    /\ testOnly

\* test_mbr_in_qemu returns: the with block is left and the result handed up
\* through run_variant_test and test_variant.
HarnessReturns(ok, kind) ==
    /\ tpc' = "returned"
    /\ tres' = Result(ok, kind)
    /\ tret' = IF ok THEN "true" ELSE "false"
    /\ tfs' = LeaveTempDir(tfs, tdir, kind)

\* test_variant or run_variant_test gives up before test_mbr_in_qemu is
\* entered.
GivesUp ==
    /\ tpc' = "returned"
    /\ tret' = "false"
    /\ UNCHANGED <<tparams, tfs, tdir, twarn>>

\* tempfile.TemporaryDirectory() raises: nothing in test_mbr_in_qemu,
\* run_variant_test, test_variant, test_all or main catches it, and the
\* process ends with the exception.
MkdtempRaises ==
    /\ tpc' = "exit"
    /\ tret' = "raise"
    /\ UNCHANGED <<tfs, tdir>>

\* dist_bin.mkdir of _build_variant raises: nothing in _load_variant_binary,
\* test_variant, test_all or main catches it, and the process ends with the
\* exception.
BuildRaises ==
    /\ tpc' = "exit"
    /\ tret' = "raise"
    /\ UNCHANGED <<tparams, tfs, tdir, twarn>>

\* test_variant, run_variant_test and test_mbr_in_qemu up to the first
\* subprocess: the checks, the loaded binary (when it gets as far as loading
\* one), the options, the temporary directory `dir`, and qemu-img started by
\* create_disk_image.
TestVariant(env, dir, mkdtempOk) ==
    /\ tpc = "variant"
    /\ LET name == Head(tqueue)
           loads == name \in VariantNames /\ Available
           load == LoadVariantBinary(env.file, env, 0)
           binary == load.data
       IN
       /\ tload' = IF loads THEN [env |-> env, builds |-> load.builds] ELSE NoLoad
       /\ tdata' = IF loads THEN binary ELSE NoData
       /\ IF loads /\ load.raised
          THEN /\ tlog' = <<"check_qemu", "QEMU is available", "_load_variant_binary">>
               /\ BuildRaises
          ELSE /\ tlog' = VariantLog(name, binary)
               /\ IF Rejected(name, binary)
                  THEN GivesUp
                  ELSE /\ twarn' = IF binary.sig THEN "present" ELSE "missing"
                       /\ tparams' = BindParams(EffectiveOptions(topts, name))
                       /\ IF mkdtempOk
                          THEN /\ tfs[dir] = "absent"
                               /\ tfs' = [tfs EXCEPT ![dir] = "empty"]
                               /\ tdir' = dir
                               /\ tpc' = "create"
                               /\ tret' = tret
                          ELSE MkdtempRaises
    /\ UNCHANGED <<targs, ttools, topts, tqueue, tcmd, tprev, temu, tres, tall, thang>>
    /\ testOnly

\* qemu-img returns (or could not be started).
CreateOutcomes == {"created", "exit 0 without a file", "failed", "not started"}

CreateFinishes(outcome) ==
    /\ tpc = "create"
    /\ IF outcome \in {"failed", "not started"}
       THEN HarnessReturns(FALSE, "create failed")
       ELSE /\ tpc' = "write"
            /\ tfs' = [tfs EXCEPT ![tdir] =
                          IF outcome = "created" THEN "blank image" ELSE @]
            /\ UNCHANGED <<tres, tret>>
    /\ UNCHANGED <<targs, ttools, topts, tqueue, tdata, tparams, tcmd, tdir, tprev,
                   temu, twarn, tall, tlog, thang, tload>>
    /\ testOnly

\* write_mbr_to_image, then the command line is built.
WriteImage(ioOk) ==
    /\ tpc = "write"
    /\ IF tdata.len # SectorSize \/ tfs[tdir] # "blank image" \/ ~ioOk
       THEN HarnessReturns(FALSE, "write failed") /\ tcmd' = tcmd
       ELSE /\ tpc' = "launch"
            /\ tfs' = [tfs EXCEPT ![tdir] = "mbr image"]
            /\ tcmd' = QemuCommand(tdir, Head(tqueue), tparams)
            /\ UNCHANGED <<tres, tret>>
    /\ UNCHANGED <<targs, ttools, topts, tqueue, tdata, tparams, tdir, tprev,
                   temu, twarn, tall, tlog, thang, tload>>
    /\ testOnly

\* subprocess.run starts the emulator, or raises; the boot code that was
\* started may be one that never ends (`hangs`).
LaunchOutcomes == {"started", "not found", "error"}

Launch(outcome, hangs) ==
    /\ tpc = "launch"
    /\ IF outcome = "started"
       THEN /\ tpc' = "emu"
            /\ temu' = "running"
            /\ thang' = hangs
            /\ UNCHANGED <<tres, tret, tfs>>
       ELSE HarnessReturns(FALSE, outcome) /\ temu' = temu /\ thang' = thang
    /\ UNCHANGED <<targs, ttools, topts, tqueue, tdata, tparams, tcmd, tdir, tprev,
                   twarn, tall, tlog, tload>>
    /\ testOnly

\* The emulator exits by itself (the operator closes its window, or the
\* guest shuts down).
EmuExits ==
    /\ tpc = "emu"
    /\ ~thang
    /\ temu' = "exited"
    /\ HarnessReturns(TRUE, "completed")
    /\ UNCHANGED <<targs, ttools, topts, tqueue, tdata, tparams, tcmd, tdir, tprev,
                   twarn, tall, tlog, thang, tload>>
    /\ testOnly

\* subprocess.run's timeout expires: the emulator is killed, TimeoutExpired
\* is caught.
EmuTimeout ==
    /\ tpc = "emu"
    /\ TimeoutArmed(tparams)
    /\ temu' = "killed"
    /\ HarnessReturns(TRUE, "timeout")
    /\ UNCHANGED <<targs, ttools, topts, tqueue, tdata, tparams, tcmd, tdir, tprev,
                   twarn, tall, tlog, thang, tload>>
    /\ testOnly

\* test_variant has returned: test_all goes on with the next variant.
TestVariantReturned ==
    /\ tpc = "returned"
    /\ tall' = (tall /\ tret = "true")
    /\ tqueue' = Tail(tqueue)
    /\ tpc' = IF Tail(tqueue) = <<>> THEN "exit" ELSE "variant"
    /\ tprev' = IF tdir # "none" THEN tdir ELSE tprev
    /\ tdir' = "none"
    /\ tdata' = NoData
    /\ tparams' = NoParams
    /\ tcmd' = <<>>
    /\ temu' = "none"
    /\ twarn' = "none"
    /\ tres' = NoResult
    /\ tret' = "none"
    /\ tlog' = <<>>
    /\ thang' = FALSE
    /\ tload' = NoLoad
    /\ UNCHANGED <<targs, ttools, topts, tfs>>
    /\ testOnly

\* The process ends; the temporary directories are the machine's and stay
\* as they are.
TestExit ==
    /\ tpc = "exit"
    /\ tpc' = "start"
    /\ targs' = NoArgs
    /\ ttools' = [qemu |-> FALSE, qemuImg |-> FALSE]
    /\ topts' = MainOptions(NoArgs)
    /\ tqueue' = <<>>
    /\ tdata' = NoData
    /\ tparams' = NoParams
    /\ tprev' = "none"
    /\ twarn' = "none"
    /\ tret' = "none"
    /\ tall' = TRUE
    /\ tlog' = <<>>
    /\ tload' = NoLoad
    /\ UNCHANGED <<tcmd, tfs, tdir, temu, tres, thang>>
    /\ testOnly

NextTest ==
    \/ \E args \in TestArgs, qemu \in BOOLEAN, qemuImg \in BOOLEAN :
          TestMain(args, qemu, qemuImg)
    \/ \E env \in LoadEnvs, dir \in TmpNames, mkdtempOk \in BOOLEAN :
          TestVariant(env, dir, mkdtempOk)
    \/ \E outcome \in CreateOutcomes : CreateFinishes(outcome)
    \/ \E ioOk \in BOOLEAN : WriteImage(ioOk)
    \/ \E outcome \in LaunchOutcomes, hangs \in BOOLEAN : Launch(outcome, hangs)
    \/ EmuExits
    \/ EmuTimeout
    \/ TestVariantReturned
    \/ TestExit

(***************************************************************************)
(* The build tool (build.py): build_variant and build_all.                 *)
(***************************************************************************)
\* Command lines: --build NAME or --build-all.
BuildArgs ==
    [mode : {"build"}, name : VariantNames \cup {"bogus"}]
        \cup {[mode |-> "build-all", name |-> "none"]}

NoBuildArgs == [mode |-> "build", name |-> "none"]

\* What build_variant prints and does, in order, up to the call of
\* compile_asm_to_binary.
BuildLog(name, asmExists, mkdirOk) ==
    IF name \notin VariantNames
    THEN <<"Unknown variant: " \o name, "Available variants: " \o JoinNames(Catalog)>>
    ELSE <<"Building " \o name, "asm_file.exists">> \o
         (IF ~asmExists THEN <<"Assembly file not found">>
          ELSE IF ~mkdirOk THEN <<"mkdir dist">>
          ELSE <<"mkdir dist", "compile_asm_to_binary">>)

\* No file, or no data.
NoBin == [size |-> Absent, content |-> "none"]

\* What the assembler can leave at the output path: nothing, or a file of
\* some size with some content.
BinFiles == {NoBin} \cup [size : BinSizes, content : {"boot code", "other code"}]

\* A build_variant that goes on whenever the binary can be read.
ProceedsWhenRead(ok, readOk) == readOk

\* build_variant goes on to create_cpp_executable when compile_asm_to_binary
\* returned success and the binary was read.
ProceedsToInstaller(ok, readOk) == ok /\ readOk

InitBuild ==
    /\ bcomp = NoResult
    /\ bbin = NoBin
    /\ bdata = NoBin
    /\ binst = "none"
    /\ bpc = "start"
    /\ bargs = NoBuildArgs
    /\ bqueue = <<>>
    /\ blog = <<>>
    /\ bret = "none"
    /\ bdone = <<>>
    /\ ball = TRUE
    /\ bresult = "none"

\* main: --build or --build-all is entered. The operator runs one tool at a
\* time: the test tool is not running.
BuildMain(args) ==
    /\ bpc = "start"
    /\ tpc = "start"
    /\ bpc' = "variant"
    /\ bargs' = args
    /\ bqueue' = IF args.mode = "build" THEN <<args.name>> ELSE Catalog
    /\ UNCHANGED <<blog, bret, bdone, ball, bresult, bcomp, bbin, bdata, binst>>
    /\ buildOnly

\* build_variant up to the call of compile_asm_to_binary: the lookup, the
\* source file, the output directories (mkdir is not inside any try).
BuildVariant(asmExists, mkdirOk) ==
    /\ bpc = "variant"
    /\ LET name == Head(bqueue) IN
       /\ blog' = BuildLog(name, asmExists, mkdirOk)
       /\ IF name \notin VariantNames \/ ~asmExists
          THEN bpc' = "returned" /\ bret' = "false"
          ELSE IF ~mkdirOk
               THEN bpc' = "exit" /\ bret' = "raise"
               ELSE bpc' = "asm" /\ bret' = bret
    /\ UNCHANGED <<bargs, bqueue, bdone, ball, bresult, bcomp, bbin, bdata, binst>>
    /\ buildOnly

\* compile_asm_to_binary has returned, the assembler having been started
\* or not, with exit code rc, leaving `file` at the output path; on success
\* the whole file is read and create_cpp_executable is called with it.
BuildCompiled(started, rc, file, readOk) ==
    /\ bpc = "asm"
    /\ readOk => file # NoBin
    /\ bcomp' = Judge(started, rc, file.size)
    /\ bbin' = file
    /\ IF ProceedsToInstaller(bcomp'.ok, readOk)
       THEN /\ bpc' = "cpp" /\ bret' = bret
            /\ bdata' = file
            /\ blog' = blog \o <<"open binary", "create_cpp_executable">>
       ELSE /\ bpc' = "returned" /\ bret' = "false"
            /\ bdata' = bdata
            /\ blog' = IF ~bcomp'.ok
                       THEN Append(blog, "Assembly compilation failed")
                       ELSE blog \o <<"open binary", "Failed to read binary">>
    /\ UNCHANGED <<bargs, bqueue, bdone, ball, bresult, binst>>
    /\ buildOnly

\* create_cpp_executable has returned.
BuildLinked(ok) ==
    /\ bpc = "cpp"
    /\ bpc' = "returned"
    /\ bret' = IF ok THEN "true" ELSE "false"
    /\ blog' = Append(blog, IF ok THEN "Executable created"
                                  ELSE "Executable creation failed")
    /\ binst' = IF ok THEN "ok" ELSE "failed"
    /\ UNCHANGED <<bargs, bqueue, bdone, ball, bresult, bcomp, bbin, bdata>>
    /\ buildOnly

\* build_variant has returned: build_all goes on with the next variant, and
\* returns success_all after the last.
BuildVariantReturned ==
    /\ bpc = "returned"
    /\ bdone' = Append(bdone, [name |-> Head(bqueue), ret |-> bret])
    /\ ball' = (ball /\ bret = "true")
    /\ bqueue' = Tail(bqueue)
    /\ bpc' = IF Tail(bqueue) = <<>> THEN "exit" ELSE "variant"
    /\ bresult' = IF Tail(bqueue) = <<>> /\ bargs.mode = "build-all"
                  THEN (IF ball' THEN "true" ELSE "false")
                  ELSE bresult
    /\ blog' = <<>>
    /\ bret' = "none"
    /\ bcomp' = NoResult
    /\ bbin' = NoBin
    /\ bdata' = NoBin
    /\ binst' = "none"
    /\ UNCHANGED bargs
    /\ buildOnly

\* The process ends.
BuildExit ==
    /\ bpc = "exit"
    /\ bpc' = "start"
    /\ bargs' = NoBuildArgs
    /\ bqueue' = <<>>
    /\ blog' = <<>>
    /\ bret' = "none"
    /\ bdone' = <<>>
    /\ ball' = TRUE
    /\ bresult' = "none"
    /\ UNCHANGED <<bcomp, bbin, bdata, binst>>
    /\ buildOnly

NextBuild ==
    \/ \E args \in BuildArgs : BuildMain(args)
    \/ \E asmExists \in BOOLEAN, mkdirOk \in BOOLEAN : BuildVariant(asmExists, mkdirOk)
    \/ \E started \in BOOLEAN, rc \in {0, 1}, file \in BinFiles, readOk \in BOOLEAN :
          BuildCompiled(started, rc, file, readOk)
    \/ \E ok \in BOOLEAN : BuildLinked(ok)
    \/ BuildVariantReturned
    \/ BuildExit

(***************************************************************************)
(* QEMURunner.write_mbr_to_image, byte by byte.                            *)
(***************************************************************************)
\* n bytes of value b.
Fill(n, b) == [i \in 1..n |-> b]

\* n bytes that differ from place to place.
Pattern(n) == [i \in 1..n |-> 1 + (i % 251)]

\* A sector of zeros ending in the boot signature 0x55 0xAA.
Signed == [Fill(SectorSize, 0) EXCEPT ![SectorSize - 1] = 85, ![SectorSize] = 170]

\* mbr_data: of the right length and of others.
BootImages ==
    { Fill(n, b) : n \in DataLens, b \in {0, 144, 255} } \cup {Pattern(SectorSize), Signed}

\* The raw images create_disk_image makes are whole megabytes (10 by
\* default), never shorter than a sector; here one or two sectors stand for
\* them, blank as qemu-img leaves them or already carrying data.
ImageLens == {SectorSize, 2 * SectorSize}

NoFile == [exists |-> FALSE, bytes |-> <<>>]

ImageFiles ==
    {NoFile} \cup
    { [exists |-> TRUE, bytes |-> bytes] :
        bytes \in { Fill(n, 0) : n \in ImageLens } \cup { Pattern(n) : n \in ImageLens } }

\* A file opened with 'wb': what was there is dropped.
WriteTruncating(bytes, data) == data

\* open(image_path, 'r+b') and f.write(data): the file is not truncated, the
\* position is 0, the bytes under the data are replaced and a file shorter
\* than the data grows.
WriteAt0(bytes, data) ==
    [i \in 1..(IF Len(bytes) > Len(data) THEN Len(bytes) ELSE Len(data)) |->
        IF i <= Len(data) THEN data[i] ELSE bytes[i]]

InitImage ==
    /\ mpc = "idle"
    /\ mdata = <<>>
    /\ mold = NoFile
    /\ mimg = NoFile
    /\ mres = NoResult
    /\ mread = <<>>

\* write_mbr_to_image(data, image_path) with `file` at image_path.
WriteMbrToImage(data, file, ioOk) ==
    /\ mpc = "idle"
    /\ mpc' = "returned"
    /\ mdata' = data
    /\ mold' = file
    /\ mread' = <<>>
    /\ IF Len(data) # SectorSize
       THEN mres' = Result(FALSE, "size") /\ mimg' = file
       ELSE IF ~file.exists
            THEN mres' = Result(FALSE, "not found") /\ mimg' = file
            ELSE IF ~ioOk
                 THEN mres' = Result(FALSE, "error") /\ mimg' = file
                 ELSE /\ mres' = Result(TRUE, "written")
                      /\ mimg' = [file EXCEPT !.bytes = WriteAt0(@, data)]
    /\ imageOnly

\* The first sector of the file is read back.
ReadBack ==
    /\ mpc = "returned"
    /\ mimg.exists
    /\ mpc' = "read back"
    /\ mread' = SubSeq(mimg.bytes, 1, SectorSize)
    /\ UNCHANGED <<mdata, mold, mimg, mres>>
    /\ imageOnly

ImageDone ==
    /\ mpc \in {"returned", "read back"}
    /\ mpc' = "idle"
    /\ mdata' = <<>>
    /\ mold' = NoFile
    /\ mimg' = NoFile
    /\ mres' = NoResult
    /\ mread' = <<>>
    /\ imageOnly

NextImage ==
    \/ \E data \in BootImages, file \in ImageFiles, ioOk \in BOOLEAN :
          WriteMbrToImage(data, file, ioOk)
    \/ ReadBack
    \/ ImageDone

(***************************************************************************)
(* Specifications: one per program component, the others staying idle.     *)
(***************************************************************************)
Init ==
    /\ InitWriter /\ InitGate /\ InitInstaller /\ InitCompiler /\ InitTest
    /\ InitBuild /\ InitImage

Next ==
    \/ NextWriter \/ NextGate \/ NextInstaller \/ NextCompiler \/ NextTest
    \/ NextBuild \/ NextImage

Spec == Init /\ [][Next]_vars
SpecWriter == Init /\ [][NextWriter]_vars
SpecGate == Init /\ [][NextGate]_vars
SpecInstaller == Init /\ [][NextInstaller]_vars
SpecCompiler == Init /\ [][NextCompiler]_vars
SpecTest == Init /\ [][NextTest]_vars
SpecBuild == Init /\ [][NextBuild]_vars
SpecImage == Init /\ [][NextImage]_vars

\* The operator's terminal: the build tool and the test tool, one at a time.
SpecTools == Init /\ [][NextBuild \/ NextTest]_vars

\* The test tool where the timeout given to subprocess.run does expire: a
\* wall-clock timer of a blocked call.
SpecTestLive == SpecTest /\ WF_vars(EmuTimeout)

(***************************************************************************)
(* Claims about the writer and its gate.                                   *)
(***************************************************************************)
\* Text made of whitespace only between positions a and b.
OnlyBlank(s, a, b) == \A k \in a..b : s[k] \in Whitespace

\* s is core with nothing but whitespace before and after it.
IsPadded(s, core) ==
    \E i \in 1..(Len(s) - Len(core) + 1) :
        /\ SubSeq(s, i, i + Len(core) - 1) = core
        /\ OnlyBlank(s, 1, i - 1)
        /\ OnlyBlank(s, i + Len(core), Len(s))

\* "yes" in every mix of upper and lower case.
YesAnyCase == { <<a, b, c>> : a \in {"y","Y"}, b \in {"e","E"}, c \in {"s","S"} }

\* The operator answered the writer's prompt with a line of text.
WriterAnswered == wconfirm # "none" /\ winput.kind = "line"

\* C1 as stated: the target is opened for writing only if the level is none
\* or the confirmation returned true.
C1_OpenOnlyWithConsent ==
    wfs.opened => (wcall.level = "none" \/ wconfirm = "yes")

\* C1 amended: the target is opened for writing only if the caller passed
\* force=True, or the level is none, or the confirmation returned true.
C1_OpenOnlyWithConsentOrForce ==
    wfs.opened => (wcall.force \/ wcall.level = "none" \/ wconfirm = "yes")

C1_Witness ==
    wfs.opened /\ ~wcall.force /\ wcall.level = "high" /\ wconfirm = "yes"

\* C2 as stated: the gate returns true iff the line itself equals the
\* required response (high: the phrase; medium: yes in any case; low: a line
\* starting with y or Y).
C2_ExactResponse ==
    (WriterAnswered /\ wcall.level \in {"high", "medium", "low"}) =>
        ( wconfirm = "yes" <=>
            CASE wcall.level = "high" -> winput.text = RiskPhrase
              [] wcall.level = "medium" -> winput.text \in YesAnyCase
              [] OTHER -> winput.text # <<>> /\ winput.text[1] \in {"y", "Y"} )

\* C2 amended: the gate returns true iff the line, with the whitespace
\* before and after it removed, is the required response.
C2_ResponseUpToPadding ==
    (WriterAnswered /\ wcall.level \in {"high", "medium", "low"}) =>
        ( wconfirm = "yes" <=>
            CASE wcall.level = "high" -> IsPadded(winput.text, RiskPhrase)
              [] wcall.level = "medium" ->
                    \E y \in YesAnyCase : IsPadded(winput.text, y)
              [] OTHER ->
                    \E i \in 1..Len(winput.text) :
                        /\ winput.text[i] \in {"y", "Y"}
                        /\ OnlyBlank(winput.text, 1, i - 1) )

C2_Witness ==
    /\ WriterAnswered
    /\ wcall.level = "high"
    /\ wconfirm = "yes"
    /\ winput.text # RiskPhrase

\* C8: for the same level and the same operator input, the gate returns the
\* same boolean on any two targets; the target changes the warning text only.
C8_ResultIndependentOfTarget ==
    gpc = "both" => gfirst.result = gsecond.result

C8_Witness ==
    /\ gpc = "both"
    /\ gfirst.banner = "physical"
    /\ gsecond.banner = "plain"
    /\ gfirst.result
    /\ glevel = "medium"

\* C9 as stated: a target is shown the physical-drive warning iff it is a
\* device path; a regular file path never is.
C9_PhysicalIffDevice ==
    wbanner # "none" => (wbanner = "physical" <=> wcall.target \in DeviceTargets)

(***************************************************************************)
(* Claims about the generated installer.                                   *)
(***************************************************************************)
Printed(msg) == \E k \in 1..Len(iout) : iout[k] = msg

\* The operator did not type what the installer's prompt asks for.
InstallerDeclined == iinput.kind = "eof" \/ (iinput.kind = "line" /\ iinput.text # YesUpper)

\* C3 as stated: the installer opens the target only after the operator typed
\* the high-tier phrase I UNDERSTAND THE RISKS.
C3_OpenOnlyAfterRiskPhrase ==
    idev.opened => (iinput.kind = "line" /\ iinput.text = RiskPhrase)

\* C10: usage error exits 1 with no prompt and no open; a declined prompt
\* exits 0 with a cancellation message and no write; a failed open or a write
\* of other than 512 bytes exits 1; success is reported, with exit 0, only
\* when exactly 512 bytes were written.
C10_InstallerExitCodes ==
    ipc = "exited" =>
        /\ iargc # 2 =>
              iexit = 1 /\ iout = <<"usage">> /\ iinput = NoInput /\ idev = UntouchedDevice
        /\ (iargc = 2 /\ InstallerDeclined) =>
              iexit = 0 /\ Printed("cancelled") /\ idev = UntouchedDevice
        /\ (iargc = 2 /\ ~InstallerDeclined /\ (~idev.opened \/ idev.written # SectorSize)) =>
              iexit = 1 /\ ~Printed("success")
        /\ (iexit = 0 /\ Printed("success")) => idev.written = SectorSize
        /\ (iexit = 0 /\ ~Printed("success")) => Printed("cancelled")

C10_Witness ==
    /\ ipc = "exited"
    /\ iargc = 2
    /\ idev.opened
    /\ idev.written = SectorSize - 1
    /\ iexit = 1

(***************************************************************************)
(* Claims about the compiler.                                              *)
(***************************************************************************)
\* C4 as stated: no consumer produces an artifact from data that is not
\* exactly 512 bytes long; here the installer generator: the C++ source in
\* the output directory embeds 512 bytes or was never written.
C4_ArtifactsOnlyFrom512 ==
    cfs.embedded # Absent => cfs.embedded = SectorSize

\* compile_asm_to_binary has returned (not raised).
AsmReturned == cpc = "done" /\ cop = "asm" /\ cret.kind # "raise"

\* C5: compile_asm_to_binary returns success iff the assembler exited with
\* code 0 and the file at the output path is exactly 512 bytes long; exit 0
\* with a file of another length is a size-mismatch failure.
C5_SuccessIffExitZeroAnd512 ==
    AsmReturned =>
        /\ cret.ok <=> (crun.count = 1 /\ crun.rc = 0 /\ cfs.bin = SectorSize)
        /\ (crun.rc = 0 /\ cfs.bin \notin {Absent, SectorSize}) =>
              cret = Result(FALSE, "size mismatch")

C5_Witness ==
    /\ AsmReturned
    /\ crun.rc = 0
    /\ cfs.bin = SectorSize - 1
    /\ cret.kind = "size mismatch"

(***************************************************************************)
(* Claims about the test tool and the harness.                             *)
(***************************************************************************)
\* An invocation of test_mbr_in_qemu is inside its with block.
InHarness == tpc \in {"create", "write", "launch", "emu"}

HasOption(cmd, opt) == \E k \in 1..Len(cmd) : cmd[k] = opt

HasNetNone(cmd) == \E k \in 1..(Len(cmd) - 1) : cmd[k] = "-net" /\ cmd[k + 1] = "none"

\* C6: once an invocation has returned, the temporary directory it made no
\* longer exists, whichever way it returned; and an invocation in progress
\* has a directory that it made itself, empty when it starts and the only
\* one there is: no directory of another invocation is left for it to share
\* or see.
C6_TempDirGoneAndOwn ==
    /\ ~InHarness => \A n \in TmpNames : tfs[n] = "absent"
    /\ InHarness =>
          /\ tdir \in TmpNames
          /\ tfs[tdir] # "absent"
          /\ tpc = "create" => tfs[tdir] = "empty"
          /\ \A n \in TmpNames \ {tdir} : tfs[n] = "absent"

C6_Witness ==
    /\ tpc = "returned"
    /\ tres = Result(TRUE, "timeout")
    /\ tprev # "none"
    /\ tdir # "none"
    /\ tfs[tdir] = "absent"

\* C7: the emulator's command line carries -snapshot unless --no-snapshot
\* was given and -net none unless --no-isolation was given, whatever else
\* (such as --timeout) is given; each option is there iff the parameter the
\* harness runs with is enabled.
C7_SnapshotAndIsolationByDefault ==
    tcmd # <<>> =>
        /\ HasOption(tcmd, "-snapshot") <=> ~targs.noSnapshot
        /\ HasNetNone(tcmd) <=> ~targs.noIsolation
        /\ HasOption(tcmd, "-snapshot") <=> tparams.snapshot
        /\ HasNetNone(tcmd) <=> tparams.isolated

C7_Witness ==
    /\ temu = "running"
    /\ targs.hasTimeout /\ targs.timeout = 5
    /\ ~targs.noSnapshot /\ targs.noIsolation
    /\ HasOption(tcmd, "-snapshot")
    /\ ~HasNetNone(tcmd)

\* C11: the harness returns a result and never raises; the result is a
\* success exactly when the emulator was launched and then exited or was
\* stopped by the timeout, and otherwise a failure whose message names the
\* step that failed.
C11_ResultNeverRaises ==
    /\ tret # "raise"
    /\ tpc = "returned" /\ tres # NoResult =>
          /\ tres.ok <=> temu \in {"exited", "killed"}
          /\ ~tres.ok =>
                tres.kind \in {"create failed", "write failed", "not found", "error"}

\* C12: the emulator is never left running once the harness has returned;
\* and when a timeout is set and the emulator would never exit by itself,
\* the harness still returns: the emulator has been killed, the result is
\* the success with the timeout message, and the temporary directory is
\* gone.
C12_TimeoutBoundsHang ==
    /\ [](tpc # "emu" => temu # "running")
    /\ (tpc = "emu" /\ thang /\ tparams.timeout_seconds > 0)
          ~> (/\ tpc = "returned"
              /\ temu = "killed"
              /\ tres = Result(TRUE, "timeout")
              /\ tfs[tdir] = "absent")

C12_Witness ==
    /\ tpc = "returned"
    /\ thang
    /\ temu = "killed"
    /\ tres = Result(TRUE, "timeout")
    /\ tfs[tdir] = "absent"

(***************************************************************************)
(* More claims about the compiler.                                         *)
(***************************************************************************)
CppReturned == cpc = "done" /\ cop = "cpp"

\* C13: once create_cpp_executable has returned, whichever way, neither the
\* resource script nor the compiled resource object is in the output
\* directory.
C13_NoResourceLeftovers == CppReturned => cfs.art \cap {"rc", "o"} = {}

\* C14: on a platform other than Windows create_cpp_executable writes no
\* manifest and no resource script; on Windows a call that succeeds has
\* written the manifest.
C14_ResourceStepOnlyOnWindows ==
    /\ ctools.platform # "windows" => cfs.art \cap {"manifest", "rc"} = {}
    /\ ctools.platform = "windows" /\ CppReturned /\ cret.ok => "manifest" \in cfs.art

\* C15: with no assembler, compile_asm_to_binary fails with the tool-missing
\* error having run no subprocess and created no directory; when the
\* assembler exits with a code other than 0 it fails with the tool-failure
\* error carrying the assembler's stderr text, whatever file is at the
\* output path.
C15_ToolMissingAndToolFailure ==
    cpc = "done" /\ cop = "asm" =>
        /\ ~ctools.nasm =>
              /\ cret = Result(FALSE, "tool missing")
              /\ crun.count = 0
              /\ ~cfs.binDir
        /\ crun.count = 1 /\ crun.rc > 0 =>
              /\ cret = Result(FALSE, "tool failure")
              /\ cdiag = crun.err

C15_Witness ==
    /\ cpc = "done" /\ cop = "asm"
    /\ crun.rc > 0
    /\ cfs.bin = SectorSize
    /\ cret = Result(FALSE, "tool failure")
    /\ cdiag # ""

\* C17: no operation lets an exception escape to its caller: every failure
\* of a directory, file or subprocess step comes back as a failure result.
C17_NoExceptionEscapes == cret.kind # "raise"

(***************************************************************************)
(* Claims about the build tool and the test tool.                          *)
(***************************************************************************)
\* C16: build_all attempts every variant of the catalog once, in catalog
\* order, whatever the earlier variants did, and returns true iff every
\* build_variant call returned true.
C16_BatchAttemptsAll ==
    bargs.mode = "build-all" /\ bpc = "exit" =>
        /\ bret # "raise"
        /\ [i \in 1..Len(bdone) |-> bdone[i].name] = Catalog
        /\ bresult # "none"
        /\ bresult = "true" <=> \A i \in 1..Len(bdone) : bdone[i].ret = "true"

UnknownReport ==
    <<"Unknown variant: bogus", "Available variants: custom_message, empty, memz">>

\* C19: build_variant and test_variant, called with an identifier that is
\* not in the catalog, return False having printed the unknown identifier
\* and the list of the known ones and nothing else: no tool was checked or
\* run, no file or directory touched, no binary loaded, and nothing raised;
\* an unknown identifier never gets past the lookup.
C19_UnknownVariantReported ==
    /\ tpc = "returned" /\ Head(tqueue) \notin VariantNames =>
          /\ tret = "false"
          /\ tlog = UnknownReport
          /\ tdata = NoData /\ tdir = "none" /\ tres = NoResult
    /\ tpc \in {"create", "write", "launch", "emu"} \/ tret = "raise" =>
          Head(tqueue) \in VariantNames
    /\ bpc = "returned" /\ Head(bqueue) \notin VariantNames =>
          /\ bret = "false"
          /\ blog = UnknownReport
    /\ bpc \in {"asm", "cpp"} \/ bret = "raise" => Head(bqueue) \in VariantNames

C19_Witness ==
    /\ bpc = "returned"
    /\ Head(bqueue) = "bogus"
    /\ bret = "false"
    /\ blog = UnknownReport

\* C20: a 512-byte image is never refused for its signature: with or
\* without 0x55 0xAA at 510..511 run_variant_test enters the emulator test,
\* with the warning exactly when the signature is missing, and the value it
\* returns is the emulator test's result, a success iff the emulator ran to
\* its exit or its timeout.
C20_SignatureWarnsOnly ==
    tdata.len = SectorSize /\ tpc \in {"create", "write", "launch", "emu", "returned"} =>
        /\ twarn = IF tdata.sig THEN "present" ELSE "missing"
        /\ tlog[Len(tlog)] = IF tdata.sig THEN "Boot signature present"
                                          ELSE "Warning: Missing boot signature 0x55AA"
        /\ tdir # "none"
        /\ tpc = "returned" =>
              /\ tres # NoResult
              /\ tret = "true" <=> tres.ok
              /\ tres.ok <=> temu \in {"exited", "killed"}

C20_Witness ==
    /\ tpc = "returned"
    /\ tdata.len = SectorSize /\ ~tdata.sig
    /\ twarn = "missing"
    /\ tres = Result(TRUE, "completed")

(***************************************************************************)
(* Claims about write_mbr_to_image.                                        *)
(***************************************************************************)
\* C18: after write_mbr_to_image has succeeded, the first 512 bytes of the
\* image file are the bytes that were written, the file is as long as it
\* was, and every byte from offset 512 on is what it was; a call that
\* fails leaves the file as it was.
C18_RoundTripAtOffset0 ==
    /\ mpc \in {"returned", "read back"} /\ mres.ok =>
          /\ Len(mdata) = SectorSize
          /\ Len(mimg.bytes) = Len(mold.bytes)
          /\ \A i \in 1..SectorSize : mimg.bytes[i] = mdata[i]
          /\ \A i \in (SectorSize + 1)..Len(mold.bytes) : mimg.bytes[i] = mold.bytes[i]
    /\ mpc = "read back" /\ mres.ok => mread = mdata
    /\ mpc \in {"returned", "read back"} /\ ~mres.ok => mimg = mold

C18_Witness ==
    /\ mpc = "read back"
    /\ mres.ok
    /\ mdata = Signed
    /\ mread = Signed
    /\ mold.bytes = Pattern(2 * SectorSize)
    /\ mimg.bytes # mold.bytes

(***************************************************************************)
(* More claims about the harness and the test tool.                        *)
(***************************************************************************)
\* C21: a harness run goes through its steps in order: the tools are
\* located, the image is one sector long, the temporary disk is created,
\* the image is written to it, the emulator is launched. The emulator is
\* launched only on a disk that holds the 512-byte image; a step that fails
\* ends the run with a failure and no emulator; and when the emulator or
\* the image utility is missing there is no temporary directory, no command
\* line and no subprocess.
C21_StepsInOrder ==
    /\ InHarness =>
          /\ ttools.qemu /\ ttools.qemuImg
          /\ tlog[1] = "check_qemu"
          /\ tdata.len = SectorSize
    /\ tpc = "create" => tfs[tdir] = "empty" /\ tcmd = <<>> /\ temu = "none"
    /\ tpc = "write" =>
          tfs[tdir] \in {"empty", "blank image"} /\ tcmd = <<>> /\ temu = "none"
    /\ tpc = "launch" => tfs[tdir] = "mbr image" /\ tcmd # <<>> /\ temu = "none"
    /\ tpc = "emu" => tfs[tdir] = "mbr image" /\ tcmd # <<>> /\ temu = "running"
    /\ temu # "none" => tdata.len = SectorSize /\ tcmd # <<>>
    /\ tpc = "returned" /\ tres # NoResult /\ ~tres.ok => temu = "none" /\ tret = "false"
    /\ (tpc # "start" /\ ~(ttools.qemu /\ ttools.qemuImg)) =>
          /\ tdir = "none" /\ tcmd = <<>> /\ temu = "none"
          /\ \A n \in TmpNames : tfs[n] = "absent"

C21_Witness ==
    /\ tpc = "emu"
    /\ temu = "running"
    /\ tfs[tdir] = "mbr image"
    /\ tdata.len = SectorSize

\* C24: when some test parameters are overridden by flag, each parameter
\* that was not overridden has, in the run, the value the selected variant
\* configures for it.
C24_OthersKeepVariantDefaults ==
    InHarness =>
        \A k \in ParamKeys \ DOMAIN topts :
            tparams[k] = VariantTestOptions[Head(tqueue)][k]

(***************************************************************************)
(* More claims about the writer.                                           *)
(***************************************************************************)
\* C22: write_mbr_to_file never reads more than one line; after a refusal
\* it has read exactly one line and returns False with the target and its
\* parent directory untouched; data that is not 512 bytes long is refused
\* with no prompt and no banner, the target and its parent untouched.
C22_DeclineIsFinal ==
    /\ wprompts <= 1
    /\ wconfirm = "no" =>
          /\ wpc = "done"
          /\ wprompts = 1
          /\ wret = "false"
          /\ wfs = CleanFs
    /\ wpc # "idle" /\ wcall.len # SectorSize =>
          /\ wpc = "done"
          /\ wprompts = 0 /\ wbanner = "none" /\ wconfirm = "none"
          /\ wret = "false"
          /\ wfs = CleanFs

C22_Witness ==
    /\ wpc = "done"
    /\ wcall.level = "high"
    /\ winput = LineInput(YesLower)
    /\ wconfirm = "no"
    /\ wret = "false"
    /\ wfs = CleanFs

\* What the level requires of the line: the phrase at high, yes at medium,
\* a line starting with y at any other level.
Required(level, line) ==
    CASE level = "high" -> Strip(line) = RiskPhrase
      [] level = "medium" -> Lower(Strip(line)) = YesLower
      [] OTHER -> StartsWith(Lower(Strip(line)), <<"y">>)

\* C25: for every safety level other than the literal none, known or not,
\* write_mbr_to_file without force prompts once before it touches the
\* target, and goes on to write iff the line meets what the level
\* requires: the stricter phrases at high and medium, the low-level
\* response at every other level.
C25_PromptUnlessLiteralNone ==
    (wpc \in {"write", "done"} /\ ~wcall.force /\ wcall.level # "none"
        /\ wcall.len = SectorSize /\ winput.kind # "eof") =>
        /\ wprompts = 1
        /\ winput.kind = "line"
        /\ wconfirm = "yes" <=> Required(wcall.level, winput.text)
        /\ wfs # CleanFs => wconfirm = "yes"
        /\ wpc = "write" => wconfirm = "yes"

C25_Witness ==
    /\ wpc = "done"
    /\ ~wcall.force
    /\ wcall.level = "HIGH"
    /\ winput = LineInput(<<"y">>)
    /\ wfs.opened
    /\ wret = "true"

(***************************************************************************)
(* More claims about the build tool.                                       *)
(***************************************************************************)
\* C23: build_variant calls create_cpp_executable only after
\* compile_asm_to_binary has returned success for the variant, gives it the
\* bytes of the file compile found to be 512 bytes long, and returns True
\* iff the compile step and the installer step both succeeded.
C23_InstallerOnlyAfterCompile ==
    /\ bpc = "cpp" \/ binst # "none" \/ bdata # NoBin =>
          /\ bcomp = Result(TRUE, "compiled")
          /\ bdata = bbin
          /\ bdata.size = SectorSize
    /\ bpc = "returned" => (bret = "true" <=> bcomp.ok /\ binst = "ok")

C23_Witness ==
    /\ bpc = "returned"
    /\ bret = "true"
    /\ bdata = [size |-> SectorSize, content |-> "boot code"]
    /\ binst = "ok"

(***************************************************************************)
(* The load-or-build step of the test tool.                                *)
(***************************************************************************)
\* The build run is one in which compile_asm_to_binary returns success: the
\* assembly file and the output directory are there, nasm is found, starts,
\* exits with 0 and leaves a file of one sector.
BuildSucceeds(run) ==
    /\ run.asm /\ run.mkdirOk /\ run.nasm /\ run.started
    /\ run.rc = 0
    /\ run.out = SectorSize

\* The bytes of a readable file of `size` bytes, None when it cannot be read.
BytesOf(size, env) ==
    IF env.readOk THEN [len |-> size, sig |-> env.sig /\ size >= SectorSize]
    ELSE NoData

\* C26: a call of _load_variant_binary ends after at most one call of
\* _build_variant: a binary that exists is read without any build; a missing
\* one is built exactly once, the built file is read when the build
\* succeeded, and None comes back when it failed; test_mbr_in_qemu is entered
\* only with bytes.
C26_LoadBuildsAtMostOnce ==
    /\ tload.builds <= 1
    /\ tload # NoLoad =>
          LET env == tload.env IN
          /\ env.file # Absent =>
                /\ tload.builds = 0
                /\ tdata = BytesOf(env.file, env)
          /\ env.file = Absent =>
                /\ tload.builds = 1
                /\ tdata = IF BuildSucceeds(env.build)
                           THEN BytesOf(SectorSize, env) ELSE NoData
    /\ InHarness => tdata # NoData /\ tload # NoLoad

C26_Witness ==
    /\ InHarness
    /\ tload.env.file = Absent
    /\ BuildSucceeds(tload.env.build)
    /\ tload.builds = 1
    /\ tdata = [len |-> SectorSize, sig |-> TRUE]

====
